---- MODULE Spec2Model ----
(***************************************************************************)
(* The movie catalogue of src/: the connection provider (connect_db.py),   *)
(* the repository functions (db.py) and the console commands (ui.py),      *)
(* over the two tables Category(categoryID, name) and                      *)
(* Movie(movieID, categoryID, name, year, minutes).                        *)
(*                                                                         *)
(* A Python value that may be None is the empty tuple (None) or a          *)
(* one-element tuple (Some(x)).  A row is a record, a table a set of rows, *)
(* a result list a sequence.                                               *)
(***************************************************************************)
EXTENDS Integers, Sequences, FiniteSets, TLC

VARIABLES
    Category,    \* the Category table
    Movie,       \* the Movie table
    before,      \* history: both tables as they were when the last call began
    pc,          \* "start", "imported", "loop", "done", "closed", "crashed"
    opened,      \* how many connections sqlite3.connect has opened so far
    openConns,   \* the handles that are open
    dbConn,      \* db.conn, the handle the repository functions use (0: none)
    lastCall,    \* the last repository/provider call: op, arg, conn, fault
    lastResult,  \* what it returned or raised
    stmts,       \* the engine calls it made, in order
    logs,        \* what it logged
    console      \* the last message the console printed

vars == <<Category, Movie, before, pc, opened, openConns, dbConn,
          lastCall, lastResult, stmts, logs, console>>

---------------------------------------------------------------------------
(* Bounds and input sets *)

MaxMovieId == 2

None == <<>>
Some(x) == <<x>>

MovieIds == 1..MaxMovieId
MovieIdInputs == 0..MaxMovieId
CategoryIdInputs == {0, 1, 2}
NameValues == {"Airplane!"}
YearValues == {1980, 1995}
MinuteValues == {88}
NameInputs == {None, Some("")} \cup {Some(n) : n \in NameValues}
YearInputs == {None, Some(0)} \cup {Some(y) : y \in YearValues}
MinuteInputs == {None, Some(0)} \cup {Some(m) : m \in MinuteValues}

SeedCategory ==
    {[categoryID |-> 1, name |-> "Comedy"], [categoryID |-> 2, name |-> "Drama"]}
SeedMovie ==
    [movieID |-> 1, categoryID |-> 1, name |-> "Airplane!", year |-> 1980, minutes |-> 88]

(* The category objects a caller of the repository can pass: one per id,    *)
(* named as the stored row when there is one, and one without an id.        *)
CategoryObject(id) ==
    [id |-> Some(id),
     name |-> IF \E c \in SeedCategory : c.categoryID = id
              THEN (CHOOSE c \in SeedCategory : c.categoryID = id).name
              ELSE "Western"]
CategoryInputs ==
    {None, Some([id |-> None, name |-> "Western"])}
        \cup {Some(CategoryObject(i)) : i \in CategoryIdInputs}
(* The movies a caller passes to add_movie: every attribute a storable     *)
(* value, or one of them missing (None) or empty ("" or 0), or a category   *)
(* without an id. *)
Unusable(movie) ==
    {a \in {"name", "year", "minutes", "category"} :
        \/ movie[a] = None
        \/ a = "name" /\ movie[a] = Some("")
        \/ a \in {"year", "minutes"} /\ movie[a] = Some(0)
        \/ a = "category" /\ movie[a][1].id = None}
MovieInputs ==
    {movie \in [name : NameInputs, year : YearInputs, minutes : MinuteInputs,
                category : CategoryInputs] : Cardinality(Unusable(movie)) <= 1}

---------------------------------------------------------------------------
(* The storage engine's failures.  sqlite3.DatabaseError has the subclasses *)
(* OperationalError, IntegrityError, ...; sqlite3.InterfaceError is not one. *)

DatabaseErrors == {"DatabaseError", "OperationalError", "IntegrityError"}
IsDatabaseError(t) == t \in DatabaseErrors
IsOperationalError(t) == t = "OperationalError"
Err(t, at) == Some([type |-> t, at |-> at])

(* What the engine answers to the steps of one call: opening the file,    *)
(* execute, commit and rollback.  A step the call never reaches is "ok".    *)
NoFault == [open |-> "ok", execute |-> "ok", commit |-> "ok", rollback |-> "ok"]
OpenFault == [NoFault EXCEPT !.open = "OperationalError"]
Faults ==
    {NoFault}
    \cup {[NoFault EXCEPT !.execute = "InterfaceError"]}
    \cup {[NoFault EXCEPT !.execute = "IntegrityError", !.rollback = r] :
            r \in {"ok", "OperationalError", "DatabaseError"}}
    \cup {[NoFault EXCEPT !.commit = "OperationalError", !.rollback = r] :
            r \in {"ok", "OperationalError", "DatabaseError"}}

---------------------------------------------------------------------------
(* Python truthiness of an attribute read with getattr(obj, name, None) *)

TruthyStr(o) == o # None /\ o[1] # ""
TruthyInt(o) == o # None /\ o[1] # 0

---------------------------------------------------------------------------
(* db.py: rows to objects *)

make_category(row) == [id |-> row.categoryID, name |-> row.categoryName]

make_movie(row) ==
    [id |-> row.movieID, name |-> row.name, year |-> row.year,
     minutes |-> row.minutes, category |-> make_category(row)]

make_movie_list(results) == [i \in DOMAIN results |-> make_movie(results[i])]

(* cursor.fetchall(): the rows of a result set in the storage's order *)
RowKey(r) == IF "movieID" \in DOMAIN r THEN r.movieID ELSE r.categoryID
RowLeq(r, s) ==
    \/ RowKey(r) < RowKey(s)
    \/ RowKey(r) = RowKey(s) /\ r.categoryID <= s.categoryID

RECURSIVE fetchall(_)
fetchall(rows) ==
    IF rows = {} THEN <<>>
    ELSE LET r == CHOOSE x \in rows : \A y \in rows : RowLeq(x, y)
         IN  <<r>> \o fetchall(rows \ {r})

(* SELECT categoryID, name as categoryName FROM Category *)
SelectCategories(C) ==
    {[categoryID |-> c.categoryID, categoryName |-> c.name] : c \in C}

(* SELECT ... FROM Movie m JOIN Category c on c.categoryID = m.categoryID *)
JoinMovieCategory(M, C) ==
    {[movieID |-> p[1].movieID, categoryID |-> p[1].categoryID,
      categoryName |-> p[2].name, name |-> p[1].name, year |-> p[1].year,
      minutes |-> p[1].minutes] :
        p \in {q \in M \X C : q[2].categoryID = q[1].categoryID}}

---------------------------------------------------------------------------
(* db.py: the read operations, as the value they return *)

get_categories(C) ==
    LET results == fetchall(SelectCategories(C))
    IN  [i \in DOMAIN results |-> make_category(results[i])]

(* get_category with the WHERE clause of its query lost *)
get_category_any_row(C, category_id) ==
    LET results == fetchall(SelectCategories(C))
    IN  IF results # <<>> THEN Some(make_category(results[1])) ELSE None

get_category(C, category_id) ==
    LET results ==
            fetchall({r \in SelectCategories(C) : r.categoryID = category_id})
    IN  IF results # <<>> THEN Some(make_category(results[1])) ELSE None

get_movies_by_category(M, C, category_id) ==
    make_movie_list(
        fetchall({r \in JoinMovieCategory(M, C) : r.categoryID = category_id}))

get_movies_by_year(M, C, year) ==
    make_movie_list(fetchall({r \in JoinMovieCategory(M, C) : r.year = year}))

Returned(M, v) ==
    [movie |-> M, raised |-> None, value |-> v, stmts |-> <<"execute">>,
     logs |-> <<>>]

---------------------------------------------------------------------------
(* db.py: the write operations.  Each gives the Movie table after the call, *)
(* what the call raised, the engine calls it made and what it logged.       *)

(* INSERT INTO Movie (categoryID, name, year, minutes) VALUES (?, ?, ?, ?), *)
(* the storage assigning movieID.  connect() sets no foreign_keys pragma,   *)
(* so the engine does not look categoryID up in Category.                   *)
InsertRow(M, movie, newId) ==
    M \cup {[movieID |-> newId, categoryID |-> movie.category[1].id[1],
             name |-> movie.name[1], year |-> movie.year[1],
             minutes |-> movie.minutes[1]]}

(* The ids the storage may assign: above every id in the table (rowid and  *)
(* AUTOINCREMENT both give such an id). *)
FreshIds(M) == {i \in MovieIds : \A m \in M : m.movieID < i}

(* A DELETE whose WHERE clause matches no row, and one without the clause *)
DeleteNoRows(M, movie_id) == M
DeleteAllRows(M, movie_id) == {}

(* DELETE FROM Movie WHERE movieID = ? *)
DeleteRows(M, movie_id) == {m \in M : m.movieID # movie_id}

(* conn.rollback(): the open transaction's changes are gone, also when the  *)
(* call fails because the engine had rolled the transaction back itself.    *)
Rollback(committed, working) == committed

(* The except clause of add_movie and delete_movie: orig is the error that  *)
(* execute or commit raised, at the step `at`. *)
Handle(committed, working, f, orig, at, done, rollbackMsg, failMsg) ==
    IF ~IsDatabaseError(orig)
    THEN [movie |-> working, raised |-> Err(orig, at), value |-> None,
          stmts |-> done, logs |-> <<>>]
    ELSE IF f.rollback = "ok"
    THEN [movie |-> Rollback(committed, working), raised |-> Err(orig, at),
          value |-> None, stmts |-> Append(done, "rollback"),
          logs |-> <<failMsg>>]
    ELSE IF IsOperationalError(f.rollback)
    THEN [movie |-> Rollback(committed, working), raised |-> Err(orig, at),
          value |-> None, stmts |-> Append(done, "rollback"),
          logs |-> <<rollbackMsg, failMsg>>]
    ELSE [movie |-> Rollback(committed, working),
          raised |-> Err(f.rollback, "rollback"), value |-> None,
          stmts |-> Append(done, "rollback"), logs |-> <<>>]

(* execute, then commit, under the try of add_movie and delete_movie *)
Transact(M, working, f, rollbackMsg, failMsg) ==
    IF f.execute # "ok"
    THEN Handle(M, M, f, f.execute, "execute", <<"execute">>, rollbackMsg, failMsg)
    ELSE IF f.commit # "ok"
    THEN Handle(M, working, f, f.commit, "commit", <<"execute", "commit">>,
                rollbackMsg, failMsg)
    ELSE [movie |-> working, raised |-> None, value |-> None,
          stmts |-> <<"execute", "commit">>, logs |-> <<>>]

ValueError(M) ==
    [movie |-> M, raised |-> Err("ValueError", "validate"), value |-> None,
     stmts |-> <<>>, logs |-> <<>>]

add_movie(M, movie, f, newId) ==
    IF movie.category = None \/ movie.category[1].id = None THEN ValueError(M)
    ELSE IF ~TruthyStr(movie.name) THEN ValueError(M)
    ELSE IF ~TruthyInt(movie.year) THEN ValueError(M)
    ELSE IF ~TruthyInt(movie.minutes) THEN ValueError(M)
    ELSE Transact(M, InsertRow(M, movie, newId), f,
                  "Failed to roll back transaction after insert failure",
                  "Failed to insert movie")

delete_movie(M, movie_id, f) ==
    Transact(M, DeleteRows(M, movie_id), f,
             "Failed to roll back delete transaction after delete failure",
             "Failed to delete movie")

(* Whether add_movie gets as far as the INSERT *)
Validated(movie) ==
    add_movie({}, movie, NoFault, 1).raised = None

---------------------------------------------------------------------------
(* connect_db.py: the connection provider *)

(* Database.connect(): sqlite3.connect opens a new handle, or raises when   *)
(* the file cannot be opened. *)
connect(f) ==
    IF f.open = "ok"
    THEN [handle |-> opened + 1, raised |-> None]
    ELSE [handle |-> 0, raised |-> Err(f.open, "connect")]

(* Database.close(): opens a handle with connect() and closes that one *)
close(f) ==
    LET c == connect(f)
    IN  IF c.raised # None
        THEN [opened |-> opened, openConns |-> openConns, raised |-> c.raised]
        ELSE [opened |-> c.handle,
              openConns |-> (openConns \cup {c.handle}) \ {c.handle},
              raised |-> None]

---------------------------------------------------------------------------
(* The state after a call *)

Tables == [Movie |-> Movie, Category |-> Category]

Call(op, arg, f, out) ==
    /\ lastCall' = [op |-> op, arg |-> arg, conn |-> dbConn, fault |-> f]
    /\ lastResult' = [raised |-> out.raised, value |-> out.value]
    /\ stmts' = out.stmts
    /\ logs' = out.logs
    /\ before' = Tables
    /\ Movie' = out.movie
    /\ UNCHANGED Category

ProviderCall(op, f, raised) ==
    /\ lastCall' = [op |-> op, arg |-> None, conn |-> 0, fault |-> f]
    /\ lastResult' = [raised |-> raised, value |-> None]
    /\ stmts' = <<>>
    /\ logs' = <<>>
    /\ before' = Tables
    /\ UNCHANGED <<Category, Movie>>

(* The engine's answers and the id it assigns, for an add_movie(movie) *)
AddFaults(movie) == IF Validated(movie) THEN Faults ELSE {NoFault}
AddIds(movie) == IF Validated(movie) THEN FreshIds(Movie) ELSE {0}

Init ==
    /\ Category = SeedCategory
    /\ Movie \in {{}, {SeedMovie}}
    /\ before = [Movie |-> Movie, Category |-> Category]
    /\ pc = "start"
    /\ opened = 0
    /\ openConns = {}
    /\ dbConn = 0
    /\ lastCall = [op |-> "none", arg |-> None, conn |-> 0, fault |-> NoFault]
    /\ lastResult = [raised |-> None, value |-> None]
    /\ stmts = <<>>
    /\ logs = <<>>
    /\ console = ""

---------------------------------------------------------------------------
(* db.py:26-27, run when the module is imported: conn = db.connect() *)
ImportDb ==
    /\ pc = "start"
    /\ \E f \in {NoFault, OpenFault} :
        LET c == connect(f)
        IN  /\ ProviderCall("connect", f, c.raised)
            /\ IF c.raised = None
               THEN /\ opened' = c.handle
                    /\ openConns' = openConns \cup {c.handle}
                    /\ dbConn' = c.handle
                    /\ pc' = "imported"
               ELSE /\ pc' = "crashed"
                    /\ UNCHANGED <<opened, openConns, dbConn>>
    /\ UNCHANGED console

(* A client of connect_db.py alone, which calls Database().close() and ends *)
ApiClose ==
    /\ pc = "start"
    /\ \E f \in {NoFault, OpenFault} :
        LET c == close(f)
        IN  /\ ProviderCall("close", f, c.raised)
            /\ opened' = c.opened
            /\ openConns' = c.openConns
            /\ pc' = IF c.raised = None THEN "closed" ELSE "crashed"
    /\ UNCHANGED <<dbConn, console>>

---------------------------------------------------------------------------
(* The repository functions, called by a client of db.py *)

ApiGetCategories ==
    /\ pc = "imported"
    /\ Call("get_categories", None, NoFault, Returned(Movie, get_categories(Category)))
    /\ UNCHANGED <<pc, opened, openConns, dbConn, console>>

ApiGetCategory ==
    /\ pc = "imported"
    /\ \E id \in CategoryIdInputs :
        Call("get_category", id, NoFault, Returned(Movie, get_category(Category, id)))
    /\ UNCHANGED <<pc, opened, openConns, dbConn, console>>

ApiGetMoviesByCategory ==
    /\ pc = "imported"
    /\ \E id \in CategoryIdInputs :
        Call("get_movies_by_category", id, NoFault,
             Returned(Movie, get_movies_by_category(Movie, Category, id)))
    /\ UNCHANGED <<pc, opened, openConns, dbConn, console>>

ApiGetMoviesByYear ==
    /\ pc = "imported"
    /\ \E y \in YearValues \cup {0} :
        Call("get_movies_by_year", y, NoFault,
             Returned(Movie, get_movies_by_year(Movie, Category, y)))
    /\ UNCHANGED <<pc, opened, openConns, dbConn, console>>

ApiAddMovie ==
    /\ pc = "imported"
    /\ \E movie \in MovieInputs :
        \E f \in AddFaults(movie) : \E newId \in AddIds(movie) :
            Call("add_movie", movie, f, add_movie(Movie, movie, f, newId))
    /\ UNCHANGED <<pc, opened, openConns, dbConn, console>>

ApiDeleteMovie ==
    /\ pc = "imported"
    /\ \E id \in MovieIdInputs : \E f \in Faults :
        Call("delete_movie", id, f, delete_movie(Movie, id, f))
    /\ UNCHANGED <<pc, opened, openConns, dbConn, console>>

---------------------------------------------------------------------------
(* ui.py: main and its commands.  An exception no one catches ends main. *)

(* Movie(name=name, year=year, minutes=minutes, category=category) *)
MovieArg(name, year, minutes, category) ==
    [name |-> Some(name), year |-> Some(year), minutes |-> Some(minutes),
     category |-> Some([id |-> Some(category.id), name |-> category.name])]

(* main up to its first prompt: Database().connect(), whose handle is       *)
(* dropped (and open until it is collected), then display_categories() *)
MainStart ==
    /\ pc = "imported"
    /\ \E f \in {NoFault, OpenFault} : \E collected \in BOOLEAN :
        LET c == connect(f)
        IN  IF c.raised # None
            THEN /\ ProviderCall("connect", f, c.raised)
                 /\ pc' = "crashed"
                 /\ UNCHANGED <<opened, openConns, console>>
            ELSE /\ opened' = c.handle
                 /\ openConns' = IF collected THEN openConns
                                  ELSE openConns \cup {c.handle}
                 /\ Call("get_categories", None, NoFault,
                         Returned(Movie, get_categories(Category)))
                 /\ console' = "CATEGORIES"
                 /\ pc' = "loop"
    /\ UNCHANGED dbConn

(* cat: display_movies_by_category *)
CmdCat ==
    /\ pc = "loop"
    /\ \E category_id \in CategoryIdInputs :
        LET category == get_category(Category, category_id)
        IN  IF category = None
            THEN /\ Call("get_category", category_id, NoFault,
                         Returned(Movie, category))
                 /\ console' = "There is no category with that ID."
            ELSE /\ Call("get_movies_by_category", category_id, NoFault,
                         Returned(Movie,
                             get_movies_by_category(Movie, Category, category_id)))
                 /\ console' = "MOVIES"
    /\ UNCHANGED <<pc, opened, openConns, dbConn>>

(* year: display_movies_by_year *)
CmdYear ==
    /\ pc = "loop"
    /\ \E year \in YearValues \cup {0} :
        Call("get_movies_by_year", year, NoFault,
             Returned(Movie, get_movies_by_year(Movie, Category, year)))
    /\ console' = "MOVIES"
    /\ UNCHANGED <<pc, opened, openConns, dbConn>>

(* add: ui.add_movie *)
CmdAdd ==
    /\ pc = "loop"
    /\ \E name \in NameValues \cup {""}, year \in YearValues \cup {0},
          minutes \in MinuteValues \cup {0}, category_id \in CategoryIdInputs :
        LET category == get_category(Category, category_id)
        IN  IF category = None
            THEN /\ Call("get_category", category_id, NoFault,
                         Returned(Movie, category))
                 /\ console' = "There is no category with that ID. Movie not added."
                 /\ pc' = pc
            ELSE LET movie == MovieArg(name, year, minutes, category[1])
                 IN  \E f \in AddFaults(movie) : \E newId \in AddIds(movie) :
                        LET out == add_movie(Movie, movie, f, newId)
                        IN  /\ Call("add_movie", movie, f, out)
                            /\ IF out.raised = None
                               THEN /\ console' = "was added to the database."
                                    /\ pc' = pc
                               ELSE /\ console' = console
                                    /\ pc' = "crashed"
    /\ UNCHANGED <<opened, openConns, dbConn>>

(* del: ui.delete_movie *)
CmdDel ==
    /\ pc = "loop"
    /\ \E movie_id \in MovieIdInputs : \E f \in Faults :
        LET out == delete_movie(Movie, movie_id, f)
        IN  /\ Call("delete_movie", movie_id, f, out)
            /\ IF out.raised = None
               THEN /\ console' = "was deleted from the database."
                    /\ pc' = pc
               ELSE /\ console' = console
                    /\ pc' = "crashed"
    /\ UNCHANGED <<opened, openConns, dbConn>>

(* any other command *)
CmdInvalid ==
    /\ pc = "loop"
    /\ console' = "Not a valid command, please try again."
    /\ UNCHANGED <<Category, Movie, before, pc, opened, openConns, dbConn,
                   lastCall, lastResult, stmts, logs>>

(* exit: break, database.close(), the farewell *)
CmdExit ==
    /\ pc = "loop"
    /\ \E f \in {NoFault, OpenFault} :
        LET c == close(f)
        IN  /\ ProviderCall("close", f, c.raised)
            /\ opened' = c.opened
            /\ openConns' = c.openConns
            /\ IF c.raised = None
               THEN /\ console' = "Thank you for visiting!"
                    /\ pc' = "done"
               ELSE /\ console' = console
                    /\ pc' = "crashed"
    /\ UNCHANGED dbConn

Next ==
    \/ ImportDb
    \/ ApiClose
    \/ ApiGetCategories
    \/ ApiGetCategory
    \/ ApiGetMoviesByCategory
    \/ ApiGetMoviesByYear
    \/ ApiAddMovie
    \/ ApiDeleteMovie
    \/ MainStart
    \/ CmdCat
    \/ CmdYear
    \/ CmdAdd
    \/ CmdDel
    \/ CmdInvalid
    \/ CmdExit

Spec == Init /\ [][Next]_vars

---------------------------------------------------------------------------
(* What the properties below speak of *)

MovieIdsOf(M) == {m.movieID : m \in M}
CategoryIdsOf(C) == {c.categoryID : c \in C}
Range(q) == {q[i] : i \in DOMAIN q}
ReadOps ==
    {"get_categories", "get_category", "get_movies_by_category",
     "get_movies_by_year"}
RepositoryOps == ReadOps \cup {"add_movie", "delete_movie"}
Validation == Err("ValueError", "validate")

(* The places of list where the movie with this id stands *)
Places(list, id) == {i \in DOMAIN list : list[i].id = id}

(* Some list operation on tables M, C returns a movie with this id *)
Listed(M, C, id) ==
    \/ \E m \in M : Places(get_movies_by_category(M, C, m.categoryID), id) # {}
    \/ \E m \in M : Places(get_movies_by_year(M, C, m.year), id) # {}

(* list holds each of rows once and nothing else, each movie with the name  *)
(* of the Category row of its categoryID *)
ExactlyRows(list, rows, C) ==
    /\ \A m \in rows : Cardinality(Places(list, m.movieID)) = 1
    /\ \A i \in DOMAIN list :
        \E m \in rows : \E c \in C :
            /\ c.categoryID = m.categoryID
            /\ list[i] = [id |-> m.movieID, name |-> m.name, year |-> m.year,
                          minutes |-> m.minutes,
                          category |-> [id |-> m.categoryID, name |-> c.name]]

(* The four fields of a movie passed to add_movie are there: 0 is a value,  *)
(* None and the empty string are not *)
Present(movie) ==
    /\ movie.name # None /\ movie.name # Some("")
    /\ movie.year # None
    /\ movie.minutes # None
    /\ movie.category # None /\ movie.category[1].id # None

(* The category id of a movie passed to add_movie is that of a stored row *)
CategoryStored(movie, C) ==
    /\ movie.category # None
    /\ movie.category[1].id # None
    /\ movie.category[1].id[1] \in CategoryIdsOf(C)

---------------------------------------------------------------------------
(* C1: after an add_movie that was accepted, get_movies_by_category with    *)
(* the movie's category id returns the new movie exactly once, with the     *)
(* name, year, minutes, category id and category name of the input.         *)
C1_AddedMovieIsListedOnce ==
    (lastCall.op = "add_movie" /\ lastResult.raised = None) =>
        LET movie == lastCall.arg
            cid == movie.category[1].id[1]
            list == get_movies_by_category(Movie, Category, cid)
        IN  Cardinality({i \in DOMAIN list :
                /\ list[i].id \notin MovieIdsOf(before.Movie)
                /\ list[i].name = movie.name[1]
                /\ list[i].year = movie.year[1]
                /\ list[i].minutes = movie.minutes[1]
                /\ list[i].category = [id |-> cid, name |-> movie.category[1].name]})
            = 1

(* C2: add_movie with a category id that no Category row has is rejected    *)
(* before any write: it raises, no INSERT is executed, storage is as before *)
C2_UnknownCategoryRejected ==
    (lastCall.op = "add_movie" /\ ~CategoryStored(lastCall.arg, before.Category)) =>
        /\ lastResult.raised # None
        /\ "execute" \notin Range(stmts)
        /\ Tables = before

(* C3: once delete_movie(id) has returned, no list operation returns a      *)
(* movie with that id, and none does after any later call that is not an    *)
(* add; deleting an id that is not in the table, the engine failing at no   *)
(* step, does not raise and leaves storage as it was.                       *)
C3_DeletedMovieIsGone ==
    /\ (lastCall.op = "delete_movie" /\ lastResult.raised = None) =>
            ~Listed(Movie, Category, lastCall.arg)
    /\ lastCall.op # "add_movie" =>
            \A id \in MovieIdsOf(before.Movie) \cup MovieIdsOf(Movie) :
                ~Listed(before.Movie, before.Category, id)
                    => ~Listed(Movie, Category, id)
    /\ (/\ lastCall.op = "delete_movie"
        /\ lastCall.arg \notin MovieIdsOf(before.Movie)
        /\ lastCall.fault = NoFault) =>
            lastResult.raised = None /\ Tables = before

(* C3's case: a delete that returned, of a movie that was listed before *)
C3_Witness ==
    /\ lastCall.op = "delete_movie"
    /\ lastResult.raised = None
    /\ Listed(before.Movie, before.Category, lastCall.arg)
    /\ Movie # {}

(* C4: get_category(id) returns the Category with that id and that row's    *)
(* name when the row exists, and None when it does not; it never raises.    *)
C4_GetCategoryFindsTheRow ==
    lastCall.op = "get_category" =>
        /\ lastResult.raised = None
        /\ \A c \in Category :
            c.categoryID = lastCall.arg =>
                lastResult.value = Some([id |-> lastCall.arg, name |-> c.name])
        /\ lastCall.arg \notin CategoryIdsOf(Category) => lastResult.value = None

(* C4's case: a get_category that found a row which is not the first row *)
C4_Witness ==
    /\ lastCall.op = "get_category"
    /\ lastCall.arg = 2
    /\ lastResult.value # None

(* C5: add_movie fails in validation, with no INSERT and storage as before, *)
(* whenever a field is missing or empty, and validation rejects no movie    *)
(* whose four fields are present, 0 counting as present.                    *)
C5_ValidationIsPresence ==
    lastCall.op = "add_movie" =>
        /\ ~Present(lastCall.arg) =>
            /\ lastResult.raised = Validation
            /\ "execute" \notin Range(stmts)
            /\ Tables = before
        /\ Present(lastCall.arg) => lastResult.raised # Validation

(* C6: when execute or commit of add_movie or delete_movie fails, a         *)
(* rollback is attempted, the caller receives that original error whatever  *)
(* the rollback does, and storage is as before the call.                    *)
C6_OriginalErrorReachesCaller ==
    (/\ lastCall.op \in {"add_movie", "delete_movie"}
     /\ (lastCall.fault.execute # "ok" \/ lastCall.fault.commit # "ok")) =>
        /\ "rollback" \in Range(stmts)
        /\ lastResult.raised =
            IF lastCall.fault.execute # "ok"
            THEN Err(lastCall.fault.execute, "execute")
            ELSE Err(lastCall.fault.commit, "commit")
        /\ Tables = before

(* C7: over a run of main one connection is opened, every repository call   *)
(* uses it, and when main has returned no connection is open.               *)
C7_OneConnectionOpenedAndClosed ==
    /\ lastCall.op \in RepositoryOps =>
            lastCall.conn = dbConn /\ dbConn \in openConns
    /\ pc \in {"loop", "done"} => opened = 1
    /\ pc = "done" => openConns = {}

(* C8: Database.close() never raises, also when the file cannot be opened   *)
C8_CloseNeverRaises ==
    lastCall.op = "close" => lastResult.raised = None

(* C9: get_movies_by_category(c) returns exactly the Movie rows with        *)
(* categoryID c and get_movies_by_year(y) exactly those with year y, each   *)
(* once and none omitted, each with the name of its Category row.           *)
C9_ListsAreExactlyTheMatchingRows ==
    /\ \A c \in CategoryIdInputs :
        ExactlyRows(get_movies_by_category(Movie, Category, c),
                    {m \in Movie : m.categoryID = c}, Category)
    /\ \A y \in YearValues \cup {0} :
        ExactlyRows(get_movies_by_year(Movie, Category, y),
                    {m \in Movie : m.year = y}, Category)

(* C10: delete_movie(id) changes no Movie row with another id and no        *)
(* Category row (the row with that id is removed or left as it was), and    *)
(* the four read operations change neither table.                           *)
C10_DeleteAndReadsFrame ==
    /\ lastCall.op = "delete_movie" =>
        /\ Movie \subseteq before.Movie
        /\ \A m \in before.Movie \ Movie : m.movieID = lastCall.arg
        /\ Category = before.Category
    /\ lastCall.op \in ReadOps => Tables = before

(* C10's case: a delete that removed its row and left another row *)
C10_Witness ==
    /\ lastCall.op = "delete_movie"
    /\ lastCall.arg \in MovieIdsOf(before.Movie)
    /\ lastCall.arg \notin MovieIdsOf(Movie)
    /\ Movie # {}

====
